---- MODULE Spec2Model ----
\* The spin-wheel lottery engine of src/lib/wheel-algorithm.ts (buildWheelLayout,
\* selectWinner, weightedRandomSelect, seededShuffle, calculateProbabilities),
\* modelled as operators over song lists, and a state machine that applies them
\* to every song list within the bounds.  With it, the components that call the
\* engine (WheelPreviewModal, SpinWheel, SpinWheelModal) and the server functions
\* of src/server/songs.ts over the songs table, each under a specification of
\* its own: SpecWheel, SpecModal, SpecServer.
\*
\* Numbers: JavaScript numbers are modelled as exact rationals [n, d] in lowest
\* terms with d > 0 (d = 0 stands for the non-finite results of a division by
\* zero).  Rounding of IEEE doubles is not modelled: "sums to 180" means the exact
\* sum, where the repository's tests use toBeCloseTo.
EXTENDS Integers, Sequences, FiniteSets, TLC

\* ---------------------------------------------------------------- bounds
MaxLen == 3        \* longest song list
MaxPoints == 2     \* points of a song range over 0..MaxPoints
MaxBananas == 2    \* bananaStickers of a song range over 0..MaxBananas
MaxSeed == 2       \* shuffle seeds range over 0..MaxSeed (or no seed)

\* ---------------------------------------------------------------- numbers
Abs(x) == IF x < 0 THEN -x ELSE x

Sgn(x) == IF x < 0 THEN -1 ELSE IF x > 0 THEN 1 ELSE 0

RECURSIVE Gcd(_, _)
Gcd(a, b) == IF b = 0 THEN a ELSE Gcd(b, a % b)

\* The number n/d in lowest terms; n/0 is Infinity, -Infinity or NaN by sign of n.
Rat(n, d) ==
    IF d = 0 THEN [n |-> Sgn(n), d |-> 0]
    ELSE LET g == Gcd(Abs(n), Abs(d))
         IN  [n |-> Sgn(d) * (n \div g), d |-> Abs(d) \div g]

Num(i) == [n |-> i, d |-> 1]

IsFinite(a) == a.d # 0

IsNaN(a) == a.d = 0 /\ a.n = 0

\* a + b
Add(a, b) ==
    IF IsFinite(a) /\ IsFinite(b) THEN Rat(a.n * b.d + b.n * a.d, a.d * b.d)
    ELSE IF IsFinite(a) THEN b
    ELSE IF IsFinite(b) THEN a
    ELSE IF a.n = b.n THEN a ELSE Rat(0, 0)

\* a * b
Mul(a, b) ==
    IF IsFinite(a) /\ IsFinite(b) THEN Rat(a.n * b.n, a.d * b.d)
    ELSE Rat(Sgn(a.n) * Sgn(b.n), 0)

\* a / b
Div(a, b) ==
    IF IsFinite(a) /\ IsFinite(b) THEN Rat(a.n * b.d, a.d * b.n)
    ELSE IF IsFinite(b) THEN Rat(a.n * (IF b.n < 0 THEN -1 ELSE 1), 0)
    ELSE IF IsFinite(a) THEN Num(0)
    ELSE Rat(0, 0)

\* a <= b (false whenever an operand is NaN)
Leq(a, b) ==
    IF IsFinite(a) /\ IsFinite(b) THEN a.n * b.d <= b.n * a.d
    ELSE IF IsNaN(a) \/ IsNaN(b) THEN FALSE
    ELSE IF IsFinite(a) THEN b.n > 0
    ELSE IF IsFinite(b) THEN a.n < 0
    ELSE a.n <= b.n

\* a < b (false whenever an operand is NaN)
Less(a, b) == Leq(a, b) /\ a # b

\* ---------------------------------------------------------------- songs
\* A WheelSong; title and artist are display strings no operation reads.
WheelSong(id, points, bananaStickers) ==
    [id |-> id, points |-> points, bananaStickers |-> bananaStickers]

\* The value null / undefined.
Null == [null |-> TRUE]

\* The filter with >= in place of >: songs without stickers pass it too.
FilterBanana_IncludesZero(items) == SelectSeq(items, LAMBDA s : s.bananaStickers >= 0)

\* items.filter(s => s.bananaStickers > 0)
RECURSIVE FilterBanana(_)
FilterBanana(items) ==
    IF items = <<>> THEN <<>>
    ELSE IF Head(items).bananaStickers > 0
         THEN <<Head(items)>> \o FilterBanana(Tail(items))
         ELSE FilterBanana(Tail(items))

\* items.reduce((sum, s) => sum + w(s), 0) over the weights ws
RECURSIVE Sum(_)
Sum(ws) == IF ws = <<>> THEN 0 ELSE Head(ws) + Sum(Tail(ws))

\* s.bananaStickers
BananaWeight(s) == s.bananaStickers

\* The elements of an array.
Elements(items) == {items[i] : i \in 1..Len(items)}

\* The callback s => s.bananaStickers on the elements of items
ByBananaStickers(items) == [s \in Elements(items) |-> BananaWeight(s)]

\* s.points || 1 : a falsy points value (0, or undefined where the song has no
\* points field) is replaced by 1; any other value, negative ones included, is kept
PointsWeight(s) ==
    IF "points" \notin DOMAIN s THEN 1
    ELSE IF s.points = 0 THEN 1
    ELSE s.points

TotalBananas(items) ==
    Sum([i \in 1..Len(FilterBanana(items)) |-> BananaWeight(FilterBanana(items)[i])])

TotalPoints(items) == Sum([i \in 1..Len(items) |-> PointsWeight(items[i])])

\* The callback s => s.points || 1 on the elements of items
ByPoints(items) == [s \in Elements(items) |-> PointsWeight(s)]

\* const hasBananaSection = totalBananas > 0
HasBananaSection(items) == TotalBananas(items) > 0

\* ---------------------------------------------------------------- weightedRandomSelect
\* The loop with the strict comparison targetWeight < cumulative.
RECURSIVE SelectLoop_Strict(_, _, _, _, _)
SelectLoop_Strict(items, ws, targetWeight, i, cumulative) ==
    IF i > Len(items) THEN items[Len(items)]
    ELSE LET c == cumulative + ws[i]
         IN  IF Less(targetWeight, Num(c)) THEN items[i]
             ELSE SelectLoop_Strict(items, ws, targetWeight, i + 1, c)

\* The loop without the fallback to the last item: null when no cumulative
\* weight reaches the target.
RECURSIVE SelectLoop_NoFallback(_, _, _, _, _)
SelectLoop_NoFallback(items, ws, targetWeight, i, cumulative) ==
    IF i > Len(items) THEN Null
    ELSE LET c == cumulative + ws[i]
         IN  IF Leq(targetWeight, Num(c)) THEN items[i]
             ELSE SelectLoop_NoFallback(items, ws, targetWeight, i + 1, c)

\* The loop of weightedRandomSelect from item i on, with the running cumulative
\* weight; falls back to the last item.
RECURSIVE SelectLoop(_, _, _, _, _)
SelectLoop(items, ws, targetWeight, i, cumulative) ==
    IF i > Len(items) THEN items[Len(items)]
    ELSE LET c == cumulative + ws[i]
         IN  IF Leq(targetWeight, Num(c)) THEN items[i]
             ELSE SelectLoop(items, ws, targetWeight, i + 1, c)

\* weightedRandomSelect without the test totalWeight === 0.
weightedRandomSelect_NoZeroGuard(items, getWeight, randomValue) ==
    IF Len(items) = 0 THEN Null
    ELSE LET ws == [i \in 1..Len(items) |-> getWeight[items[i]]]
         IN  SelectLoop(items, ws, Mul(randomValue, Num(Sum(ws))), 1, 0)

\* getWeight is a function from the items to their weights.
weightedRandomSelect(items, getWeight, randomValue) ==
    IF Len(items) = 0 THEN Null
    ELSE LET ws == [i \in 1..Len(items) |-> getWeight[items[i]]]
             totalWeight == Sum(ws)
         IN  IF totalWeight = 0 THEN items[1]
             ELSE SelectLoop(items, ws, Mul(randomValue, Num(totalWeight)), 1, 0)

\* ---------------------------------------------------------------- selectWinner
\* selectWinner with the section drawn by rand1 < 0.5 alone, whether or not a
\* banana section exists.
selectWinner_NoSectionCheck(items, rand1, rand2) ==
    IF Len(items) = 0 THEN Null
    ELSE LET winner == IF Less(rand1, Rat(1, 2))
                       THEN weightedRandomSelect(FilterBanana(items), ByBananaStickers(items), rand2)
                       ELSE weightedRandomSelect(items, ByPoints(items), rand2)
         IN  IF winner # Null
             THEN [winner |-> winner, fromBananaSection |-> Less(rand1, Rat(1, 2))]
             ELSE Null

\* selectWinner with the banana section drawn from all songs instead of the
\* songs that have stickers.
selectWinner_UnfilteredBananaPool(items, rand1, rand2) ==
    IF Len(items) = 0 THEN Null
    ELSE LET fromBananaSection == HasBananaSection(items) /\ Less(rand1, Rat(1, 2))
             winner == IF fromBananaSection
                       THEN weightedRandomSelect(items, ByBananaStickers(items), rand2)
                       ELSE weightedRandomSelect(items, ByPoints(items), rand2)
         IN  [winner |-> winner, fromBananaSection |-> fromBananaSection]

\* selectWinner with the banana section weighted by points instead of by the
\* banana count.
selectWinner_BananaByPoints(items, rand1, rand2) ==
    IF Len(items) = 0 THEN Null
    ELSE LET fromBananaSection == HasBananaSection(items) /\ Less(rand1, Rat(1, 2))
             winner == IF fromBananaSection
                       THEN weightedRandomSelect(FilterBanana(items), ByPoints(items), rand2)
                       ELSE weightedRandomSelect(items, ByPoints(items), rand2)
         IN  [winner |-> winner, fromBananaSection |-> fromBananaSection]

\* selectWinner with the banana section drawn for rand1 <= 0.5.
selectWinner_HalfInclusive(items, rand1, rand2) ==
    IF Len(items) = 0 THEN Null
    ELSE LET fromBananaSection == HasBananaSection(items) /\ Leq(rand1, Rat(1, 2))
             winner == IF fromBananaSection
                       THEN weightedRandomSelect(FilterBanana(items), ByBananaStickers(items), rand2)
                       ELSE weightedRandomSelect(items, ByPoints(items), rand2)
         IN  [winner |-> winner, fromBananaSection |-> fromBananaSection]

\* selectWinner without the test songs.length === 0 and without the tests of
\* the winner: what weightedRandomSelect returns is wrapped as it is.
selectWinner_Unguarded(items, rand1, rand2) ==
    LET fromBananaSection == HasBananaSection(items) /\ Less(rand1, Rat(1, 2))
        winner == IF fromBananaSection
                  THEN weightedRandomSelect(FilterBanana(items),
                                            ByBananaStickers(FilterBanana(items)), rand2)
                  ELSE weightedRandomSelect(items, ByPoints(items), rand2)
    IN  [winner |-> winner, fromBananaSection |-> fromBananaSection]

\* rand1, rand2 are the values after `?? Math.random()`.
selectWinner(items, rand1, rand2) ==
    IF Len(items) = 0 THEN Null
    ELSE LET bananaSongs == FilterBanana(items)
             hasBananaSection == HasBananaSection(items)
             fromBananaSection == hasBananaSection /\ Less(rand1, Rat(1, 2))
         IN  IF fromBananaSection
             THEN LET winner == weightedRandomSelect(bananaSongs, ByBananaStickers(bananaSongs), rand2)
                  IN  IF winner # Null
                      THEN [winner |-> winner, fromBananaSection |-> TRUE]
                      ELSE Null
             ELSE LET winner == weightedRandomSelect(items, ByPoints(items), rand2)
                  IN  IF winner # Null
                      THEN [winner |-> winner, fromBananaSection |-> FALSE]
                      ELSE Null

\* ---------------------------------------------------------------- seededShuffle
\* a % m of JavaScript: the result takes the sign of the dividend
JsRem(a, m) == IF a >= 0 THEN a % m ELSE -((-a) % m)

\* An array object is held as a function from its property keys to values: the
\* indices 0..length-1 and whatever other integer keys were written.
ArrayObject(array) == [i \in 0..(Len(array) - 1) |-> array[i + 1]]

\* object[i]: undefined where the object has no property i
At(object, i) == IF i \in DOMAIN object THEN object[i] ELSE Null

\* object[i] = v: a write at a negative index sets the property i of the object
\* and leaves its elements alone (the loop writes at no index >= length)
Put(object, i, v) == [k \in DOMAIN object \cup {i} |-> IF k = i THEN v ELSE object[k]]

\* The while loop of seededShuffle.  random() advances currentSeed and returns
\* currentSeed / 233280, so Math.floor(random() * currentIndex) is the floor of
\* currentSeed * currentIndex / 233280.  The swap reads both values, then writes
\* shuffled[currentIndex] and shuffled[randomIndex] in that order.
RECURSIVE ShuffleLoop(_, _, _)
ShuffleLoop(shuffled, currentIndex, currentSeed) ==
    IF currentIndex > 0
    THEN LET nextSeed == JsRem(currentSeed * 9301 + 49297, 233280)
             randomIndex == (nextSeed * currentIndex) \div 233280
             index == currentIndex - 1
             swapped == Put(Put(shuffled, index, At(shuffled, randomIndex)),
                            randomIndex, At(shuffled, index))
         IN  ShuffleLoop(swapped, index, nextSeed)
    ELSE shuffled

\* The elements 0..length-1 of the object the loop leaves.
seededShuffle(array, seed) ==
    LET shuffled == ShuffleLoop(ArrayObject(array), Len(array), seed)
    IN  [i \in 1..Len(array) |-> shuffled[i - 1]]

\* const shuffled = array: the loop writes to the caller's array.
seededShuffleCall_InPlace(array, seed) ==
    [array |-> seededShuffle(array, seed), returned |-> seededShuffle(array, seed)]

\* A call of seededShuffle as its caller sees it: the array that was passed, as
\* it is after the call, and the array returned.  `[...array]` copies the
\* elements into a new array, and the loop writes to that copy alone.
seededShuffleCall(array, seed) ==
    [array |-> array, returned |-> seededShuffle(array, seed)]

\* ---------------------------------------------------------------- buildWheelLayout
\* `banana-${song.id}` / `points-${song.id}`
SegmentId(prefix, id) == <<prefix, id>>

\* What reading a property of undefined throws.
TypeError == [threw |-> "TypeError"]

\* Both sections weighted by points.
SegmentWeight_ByPoints(song, isBananaSection) == PointsWeight(song)

\* The weight a section gives a song: banana count in the banana section,
\* points || 1 in the points section.
SegmentWeight(song, isBananaSection) ==
    IF isBananaSection THEN BananaWeight(song) ELSE PointsWeight(song)

\* (weight / total) * degreesTotal
SegmentAngle(weight, total, degreesTotal) ==
    Mul(Div(Num(weight), Num(total)), Num(degreesTotal))

\* The points section always given the whole wheel.
PointsDegreesTotal_WholeWheel(hasBananaSection) == 360

\* const pointsDegreesTotal = hasBananaSection ? 180 : 360
PointsDegreesTotal(hasBananaSection) == IF hasBananaSection THEN 180 ELSE 360

\* The loop without `currentAngle += angle`: every segment starts where the
\* section starts.
RECURSIVE SectionLoop_NoAdvance(_, _, _, _, _, _, _)
SectionLoop_NoAdvance(list, i, isBananaSection, total, degreesTotal, segments, currentAngle) ==
    IF i > Len(list) THEN [segments |-> segments, currentAngle |-> currentAngle]
    ELSE IF list[i] = Null THEN TypeError
    ELSE LET song == list[i]
             angle == SegmentAngle(SegmentWeight(song, isBananaSection), total, degreesTotal)
             segment == [song |-> song,
                         startAngle |-> currentAngle,
                         endAngle |-> Add(currentAngle, angle),
                         angle |-> angle,
                         midAngle |-> Add(currentAngle, Div(angle, Num(2))),
                         isBananaSection |-> isBananaSection,
                         segmentId |-> SegmentId(IF isBananaSection THEN "banana" ELSE "points",
                                                 song.id)]
         IN  SectionLoop_NoAdvance(list, i + 1, isBananaSection, total, degreesTotal,
                                   Append(segments, segment), currentAngle)

\* One of the two for loops of buildWheelLayout: appends a segment per song of
\* list, advancing currentAngle.
RECURSIVE SectionLoop(_, _, _, _, _, _, _)
SectionLoop(list, i, isBananaSection, total, degreesTotal, segments, currentAngle) ==
    IF i > Len(list) THEN [segments |-> segments, currentAngle |-> currentAngle]
    ELSE IF list[i] = Null THEN TypeError
    ELSE LET song == list[i]
             angle == SegmentAngle(SegmentWeight(song, isBananaSection), total, degreesTotal)
             segment == [song |-> song,
                         startAngle |-> currentAngle,
                         endAngle |-> Add(currentAngle, angle),
                         angle |-> angle,
                         midAngle |-> Add(currentAngle, Div(angle, Num(2))),
                         isBananaSection |-> isBananaSection,
                         segmentId |-> SegmentId(IF isBananaSection THEN "banana" ELSE "points",
                                                 song.id)]
         IN  SectionLoop(list, i + 1, isBananaSection, total, degreesTotal,
                         Append(segments, segment), Add(currentAngle, angle))

\* shuffleSeed is <<>> for an omitted (undefined) seed and <<seed>> otherwise.
buildWheelLayout(items, shuffleSeed) ==
    IF Len(items) = 0
    THEN [segments |-> <<>>, hasBananaSection |-> FALSE, totalBananas |-> 0, totalPoints |-> 0]
    ELSE LET bananaSongs == FilterBanana(items)
             totalBananas == TotalBananas(items)
             totalPoints == TotalPoints(items)
             hasBananaSection == HasBananaSection(items)
             shuffledBananaSongs == IF shuffleSeed # <<>>
                                    THEN seededShuffle(bananaSongs, shuffleSeed[1])
                                    ELSE bananaSongs
             shuffledAllSongs == IF shuffleSeed # <<>>
                                 THEN seededShuffle(items, shuffleSeed[1] + 1)
                                 ELSE items
             start == [segments |-> <<>>, currentAngle |-> Num(-90)]
             banana == IF hasBananaSection
                       THEN SectionLoop(shuffledBananaSongs, 1, TRUE, totalBananas, 180,
                                        start.segments, start.currentAngle)
                       ELSE start
             pointsDegreesTotal == PointsDegreesTotal(hasBananaSection)
             all == IF banana = TypeError THEN TypeError
                    ELSE SectionLoop(shuffledAllSongs, 1, FALSE, totalPoints, pointsDegreesTotal,
                                     banana.segments, banana.currentAngle)
         IN  IF all = TypeError THEN TypeError
             ELSE [segments |-> all.segments, hasBananaSection |-> hasBananaSection,
                   totalBananas |-> totalBananas, totalPoints |-> totalPoints]

\* ---------------------------------------------------------------- calculateProbabilities
\* result.set(key, value) on a Map held as a function from keys to values
MapSet(map, key, value) ==
    [k \in DOMAIN map \cup {key} |-> IF k = key THEN value ELSE map[k]]

\* The banana share without the halving for the points section.
BananaProbability_NotHalved(song, items) ==
    IF HasBananaSection(items) /\ song.bananaStickers > 0
    THEN Div(Num(song.bananaStickers), Num(TotalBananas(items)))
    ELSE Num(0)

\* hasBananaSection && song.bananaStickers > 0 ? 0.5 * (song.bananaStickers / totalBananas) : 0
BananaProbability(song, items) ==
    IF HasBananaSection(items) /\ song.bananaStickers > 0
    THEN Mul(Rat(1, 2), Div(Num(song.bananaStickers), Num(TotalBananas(items))))
    ELSE Num(0)

\* The points share without the halving for the banana section.
PointsProbability_NotHalved(song, items) ==
    Div(Num(PointsWeight(song)), Num(TotalPoints(items)))

\* hasBananaSection ? 0.5 * ((song.points || 1) / totalPoints) : (song.points || 1) / totalPoints
PointsProbability(song, items) ==
    IF HasBananaSection(items)
    THEN Mul(Rat(1, 2), Div(Num(PointsWeight(song)), Num(TotalPoints(items))))
    ELSE Div(Num(PointsWeight(song)), Num(TotalPoints(items)))

\* The for loop of calculateProbabilities from song i on.
RECURSIVE ProbabilityLoop(_, _, _)
ProbabilityLoop(items, i, result) ==
    IF i > Len(items) THEN result
    ELSE LET song == items[i]
             bananaProbability == BananaProbability(song, items)
             pointsProbability == PointsProbability(song, items)
         IN  ProbabilityLoop(items, i + 1,
                 MapSet(result, song.id,
                        [bananaProbability |-> bananaProbability,
                         pointsProbability |-> pointsProbability,
                         totalProbability |-> Add(bananaProbability, pointsProbability)]))

calculateProbabilities(items) == ProbabilityLoop(items, 1, <<>>)

\* ---------------------------------------------------------------- callers
\* SpinWheel's shuffleSeed: songs.reduce((acc, s) => acc + s.id, 0)
SpinWheelSeed(items) == Sum([i \in 1..Len(items) |-> items[i].id])

\* SpinWheel's search for the winning segment:
\* displaySegments.find(s => s.segmentId === `${segmentPrefix}-${winner.id}`)
RECURSIVE Find(_, _)
Find(segments, segmentId) ==
    IF segments = <<>> THEN Null
    ELSE IF Head(segments).segmentId = segmentId THEN Head(segments)
    ELSE Find(Tail(segments), segmentId)

WinningSegment(displaySegments, spin) ==
    Find(displaySegments,
         SegmentId(IF spin.fromBananaSection THEN "banana" ELSE "points", spin.winner.id))

\* ---------------------------------------------------------------- WheelPreviewModal
\* The chance with the pool factor left out: a song without stickers is
\* given the whole wheel even when a banana section exists.
PercentChance_NoPoolChance(song, allSongs) ==
    IF song.bananaStickers > 0 /\ Len(FilterBanana(allSongs)) > 0
    THEN Mul(Add(Mul(Div(Num(song.bananaStickers), Num(TotalBananas(allSongs))), Rat(1, 2)),
                 Mul(Div(Num(PointsWeight(song)), Num(TotalPoints(allSongs))), Rat(1, 2))),
             Num(100))
    ELSE Mul(Div(Num(PointsWeight(song)), Num(TotalPoints(allSongs))), Num(100))

\* percentChance of WheelPreviewModal for the song shown among allSongs;
\* hasBanana is bananaSongs.length > 0.
PercentChance(song, allSongs) ==
    LET hasBanana == Len(FilterBanana(allSongs)) > 0
        allPointsTotal == TotalPoints(allSongs)
        songPoints == PointsWeight(song)
    IN  IF song.bananaStickers > 0 /\ hasBanana
        THEN LET totalBananaCount == TotalBananas(allSongs)
                 chanceInBananaSection ==
                     Mul(Div(Num(song.bananaStickers), Num(totalBananaCount)), Rat(1, 2))
                 chanceInPointsSection ==
                     Mul(Div(Num(songPoints), Num(allPointsTotal)), Rat(1, 2))
             IN  Mul(Add(chanceInBananaSection, chanceInPointsSection), Num(100))
        ELSE LET poolChance == IF hasBanana THEN Rat(1, 2) ELSE Num(1)
             IN  Mul(Mul(Div(Num(songPoints), Num(allPointsTotal)), poolChance), Num(100))

\* ---------------------------------------------------------------- SpinWheel
\* a - b
Sub(a, b) == Add(a, Mul(Num(-1), b))

\* a % m for a finite a and a whole m > 0: the remainder of the division
\* truncated towards zero, with the sign of a.
Rem(a, m) ==
    LET q == Sgn(a.n) * (Abs(a.n) \div (a.d * m))
    IN  Rat(a.n - q * a.d * m, a.d)

\* Math.floor(a) for a finite a
Floor(a) == a.n \div a.d

\* ((a % 360) + 360) % 360
Normalized(a) == Rem(Add(Rem(a, 360), Num(360)), 360)

\* Math.floor(5 + Math.random() * 4) for the value random of Math.random()
NumExtraSpins(random) == Floor(Add(Num(5), Mul(random, Num(4))))

\* The final rotation without the wrap of a delta that is not positive.
FinalRotation_NoWrap(rotation, midAngle, numExtraSpins) ==
    LET deltaToTarget == Sub(Normalized(Sub(Num(270), midAngle)), Normalized(rotation))
    IN  Add(Add(rotation, deltaToTarget), Num(numExtraSpins * 360))

\* finalRotation of the spin effect, from the current rotation, the winning
\* segment's midAngle and the number of extra spins.
FinalRotation(rotation, midAngle, numExtraSpins) ==
    LET baseRotation == Sub(Num(270), midAngle)
        baseNormalized == Normalized(baseRotation)
        currentNormalized == Normalized(rotation)
        difference == Sub(baseNormalized, currentNormalized)
        deltaToTarget == IF Leq(difference, Num(0)) THEN Add(difference, Num(360))
                         ELSE difference
        extraSpins == numExtraSpins * 360
    IN  Add(Add(rotation, deltaToTarget), Num(extraSpins))

\* ---------------------------------------------------------------- server/songs.ts
MaxRequests == 2
MaxCalls == 5
MaxSongId == 3
MaxAmount == 2

\* A column that is NULL is <<>>, one that holds v is <<v>>.
Column(v) == <<v>>

\* The row submitSong inserts: points 1, the defaults of the schema for
\* bananaStickers and archivedAt, submitterId || null.
NewRow(id, submitterId) ==
    [id |-> id,
     points |-> 1,
     bananaStickers |-> 0,
     submitterId |-> IF submitterId = "" THEN <<>> ELSE Column(submitterId),
     archivedAt |-> <<>>]

\* data.allSubmitterIds?.filter(Boolean) ?? (data.submitterId ? [data.submitterId] : []);
\* allSubmitterIds is <<>> when omitted and <<list>> otherwise.
IdsToCheck(data) ==
    IF data.allSubmitterIds # <<>>
    THEN SelectSeq(data.allSubmitterIds[1], LAMBDA id : id # "")
    ELSE IF data.submitterId # "" THEN <<data.submitterId>> ELSE <<>>

\* select ... where inArray(songs.submitterId, idsToCheck) limit 1
ExistingSong(table, idsToCheck) ==
    LET found == SelectSeq(table, LAMBDA row :
                     /\ row.submitterId # <<>>
                     /\ \E k \in 1..Len(idsToCheck) : idsToCheck[k] = row.submitterId[1])
    IN  IF found = <<>> THEN <<>> ELSE <<found[1]>>

\* update songs set archivedAt = now where id = id
SetArchivedAt(table, id, now) ==
    [i \in 1..Len(table) |->
        IF table[i].id = id THEN [table[i] EXCEPT !.archivedAt = Column(now)] ELSE table[i]]

\* The increment that reaches the archived songs too.
IncrementRemaining_All(table) ==
    [i \in 1..Len(table) |-> [table[i] EXCEPT !.points = @ + 1]]

\* update songs set points = points + 1 where archivedAt is null
IncrementRemaining(table) ==
    [i \in 1..Len(table) |->
        IF table[i].archivedAt = <<>> THEN [table[i] EXCEPT !.points = @ + 1] ELSE table[i]]

\* GREATEST(a, b)
Greatest(a, b) == IF a >= b THEN a ELSE b

\* The update of addPoints without GREATEST.
SetPoints_Unclamped(table, id, points) ==
    [i \in 1..Len(table) |->
        IF table[i].id = id THEN [table[i] EXCEPT !.points = @ + points] ELSE table[i]]

\* update songs set points = GREATEST(points + data.points, 1) where id = data.id
SetPoints(table, id, points) ==
    [i \in 1..Len(table) |->
        IF table[i].id = id THEN [table[i] EXCEPT !.points = Greatest(@ + points, 1)]
        ELSE table[i]]

\* update songs set bananaStickers = GREATEST(bananaStickers + data.delta, 0)
\* where id = data.id
SetBananaStickers(table, id, delta) ==
    [i \in 1..Len(table) |->
        IF table[i].id = id THEN [table[i] EXCEPT !.bananaStickers = Greatest(@ + delta, 0)]
        ELSE table[i]]

\* ---------------------------------------------------------------- state
VARIABLES
    songs,                      \* the caller's song list
    op,                         \* the operation last applied to it, "idle" before a call
    shuffleSeed,                \* buildWheelLayout's shuffleSeed: <<>> or <<seed>>
    randomValue,                \* selectWinner's rand1 / weightedRandomSelect's randomValue
    randomValueWithinSection,   \* selectWinner's rand2
    getWeight,                  \* the weight function passed to weightedRandomSelect
    layout,                     \* what buildWheelLayout returned
    result,                     \* what selectWinner returned
    selected,                   \* what weightedRandomSelect returned
    probabilities,              \* what calculateProbabilities returned
    shuffled,                   \* what seededShuffle returned
    previewSong,                \* WheelPreviewModal's song prop
    percentChance,              \* the percentChance WheelPreviewModal computed for it
    isSpinning,                 \* SpinWheelModal's isSpinning, SpinWheel's prop
    rotation,                   \* SpinWheel's rotation
    hasSpun,                    \* SpinWheel's hasSpun
    timers,                     \* the songs of the pending setTimeout callbacks, oldest first
    spinDebug,                  \* what the last spinDebug effect computed (its debug log)
    spins,                      \* how many spins the effect has started
    reports,                    \* the songs onSpinComplete was called with
    event,                      \* the handler of SpinWheelModal that ran last
    open,                       \* SpinWheelModal's open prop
    winner,                     \* SpinWheelModal's winner
    showResult,                 \* SpinWheelModal's showResult
    archiveCalls,               \* the calls of onArchiveSong
    rows,                       \* the songs table, in the order of the serial id
    requests,                   \* the server function calls in flight or just answered
    calls                       \* how many server functions have been called

previewVars == <<previewSong, percentChance>>

wheelVars == <<isSpinning, rotation, hasSpun, timers, spinDebug, spins, reports>>

modalVars == <<event, open, winner, showResult, archiveCalls>>

\* The variables of the components and of the server, which the calls of the
\* engine leave alone.
serverVars == <<rows, requests, calls>>

otherVars == <<previewVars, wheelVars, modalVars, serverVars>>

\* The variables of the calls of the engine, the list apart.
engineVars == <<op, shuffleSeed, randomValue, randomValueWithinSection, getWeight,
                layout, result, selected, probabilities, shuffled>>

vars == <<songs, op, shuffleSeed, randomValue, randomValueWithinSection, getWeight,
          layout, result, selected, probabilities, shuffled, otherVars>>

\* Song lists of length n: ids are distinct (the serial primary key) and differ
\* from the positions in the list; points and bananaStickers are non-negative
\* integers.
SongIds(n) == [i \in 1..n |-> MaxLen + 1 - i]

SongLists(n) ==
    {[i \in 1..n |-> WheelSong(SongIds(n)[i], ps[i], bs[i])] :
        ps \in [1..n -> 0..MaxPoints], bs \in [1..n -> 0..MaxBananas]}

AllSongLists == UNION {SongLists(n) : n \in 0..MaxLen}

\* Random values in [0, 1): every multiple of 1/(2 * total), so that both the
\* cumulative boundaries of a pool of that total weight and the points between
\* them are drawn.
Grid(total) == {Rat(k, 2 * total) : k \in 0..(2 * total - 1)}

RandomValues(items) ==
    UNION {Grid(t) : t \in {2, TotalBananas(items), TotalPoints(items)} \ {0}}

ShuffleSeeds(items) == {<<>>} \cup {<<s>> : s \in 0..MaxSeed \cup {SpinWheelSeed(items)}}

\* The seeds seededShuffle is called with for those shuffleSeeds.
ShuffleCallSeeds(items) ==
    UNION {{s[1], s[1] + 1} : s \in ShuffleSeeds(items) \ {<<>>}}

\* The caller's array after buildWheelLayout(items, shuffleSeed): filter and
\* reduce write nothing, the segments are pushed onto a new array, and the one
\* call that is handed the caller's array is seededShuffle(songs, shuffleSeed + 1).
ArrayAfterBuild(items, seed) ==
    IF Len(items) > 0 /\ seed # <<>>
    THEN seededShuffleCall(items, seed[1] + 1).array
    ELSE items

Idle ==
    /\ op = "idle"
    /\ shuffleSeed = <<>>
    /\ randomValue = Num(0)
    /\ randomValueWithinSection = Num(0)
    /\ getWeight = "none"
    /\ layout = Null
    /\ result = Null
    /\ selected = Null
    /\ probabilities = Null
    /\ shuffled = Null

NoPreview ==
    /\ previewSong = Null
    /\ percentChance = Null

\* SpinWheel as mounted: useState(0), useState(false); nothing spun yet.
WheelMounted ==
    /\ isSpinning = FALSE
    /\ rotation = Num(0)
    /\ hasSpun = FALSE
    /\ timers = <<>>
    /\ spinDebug = Null
    /\ spins = 0
    /\ reports = <<>>

\* The songs table as created, and no server function called.
NoRequests ==
    /\ rows = <<>>
    /\ requests = [r \in 1..MaxRequests |-> Null]
    /\ calls = 0

\* SpinWheelModal as mounted by the page, closed.
ModalMounted ==
    /\ event = "none"
    /\ open = FALSE
    /\ winner = Null
    /\ showResult = FALSE
    /\ archiveCalls = <<>>

Init ==
    /\ songs \in AllSongLists
    /\ Idle
    /\ NoPreview
    /\ WheelMounted
    /\ ModalMounted
    /\ NoRequests

BuildWheelLayout ==
    /\ op = "idle"
    /\ \E seed \in ShuffleSeeds(songs) :
        /\ shuffleSeed' = seed
        /\ layout' = buildWheelLayout(songs, seed)
        /\ songs' = ArrayAfterBuild(songs, seed)
    /\ op' = "buildWheelLayout"
    /\ UNCHANGED <<randomValue, randomValueWithinSection, getWeight,
                   result, selected, probabilities, shuffled>>
    /\ UNCHANGED otherVars

SelectWinner ==
    /\ op = "idle"
    /\ \E rand1 \in Grid(2), rand2 \in RandomValues(songs) :
        /\ randomValue' = rand1
        /\ randomValueWithinSection' = rand2
        /\ result' = selectWinner(songs, rand1, rand2)
    /\ op' = "selectWinner"
    /\ UNCHANGED <<songs, shuffleSeed, getWeight, layout, selected, probabilities, shuffled>>
    /\ UNCHANGED otherVars

WeightedRandomSelect ==
    /\ op = "idle"
    /\ \E w \in {"bananaStickers", "points || 1"}, u \in RandomValues(songs) :
        /\ getWeight' = w
        /\ randomValue' = u
        /\ selected' = CASE w = "bananaStickers" -> weightedRandomSelect(songs, ByBananaStickers(songs), u)
                         [] OTHER -> weightedRandomSelect(songs, ByPoints(songs), u)
    /\ op' = "weightedRandomSelect"
    /\ UNCHANGED <<songs, shuffleSeed, randomValueWithinSection, layout, result, probabilities,
                   shuffled>>
    /\ UNCHANGED otherVars

CalculateProbabilities ==
    /\ op = "idle"
    /\ probabilities' = calculateProbabilities(songs)
    /\ op' = "calculateProbabilities"
    /\ UNCHANGED <<songs, shuffleSeed, randomValue, randomValueWithinSection, getWeight,
                   layout, result, selected, shuffled>>
    /\ UNCHANGED otherVars

\* seededShuffle(songs, seed) with one of the seeds buildWheelLayout passes on:
\* shuffleSeed or shuffleSeed + 1.
SeededShuffle ==
    /\ op = "idle"
    /\ \E seed \in ShuffleCallSeeds(songs) :
        /\ shuffleSeed' = <<seed>>
        /\ shuffled' = seededShuffleCall(songs, seed).returned
        /\ songs' = seededShuffleCall(songs, seed).array
    /\ op' = "seededShuffle"
    /\ UNCHANGED <<randomValue, randomValueWithinSection, getWeight,
                   layout, result, selected, probabilities>>
    /\ UNCHANGED otherVars

\* WheelPreviewModal rendered for one of the songs of allSongs.
WheelPreview ==
    /\ op = "idle"
    /\ \E i \in 1..Len(songs) :
        /\ previewSong' = songs[i]
        /\ percentChance' = PercentChance(songs[i], songs)
    /\ op' = "WheelPreviewModal"
    /\ UNCHANGED <<songs, shuffleSeed, randomValue, randomValueWithinSection, getWeight,
                   layout, result, selected, probabilities, shuffled>>
    /\ UNCHANGED <<wheelVars, modalVars, serverVars>>

\* The call has returned and its value objects are dropped; the list is unchanged.
Return ==
    /\ op # "idle"
    /\ op' = "idle"
    /\ shuffleSeed' = <<>>
    /\ randomValue' = Num(0)
    /\ randomValueWithinSection' = Num(0)
    /\ getWeight' = "none"
    /\ layout' = Null
    /\ result' = Null
    /\ selected' = Null
    /\ probabilities' = Null
    /\ shuffled' = Null
    /\ previewSong' = Null
    /\ percentChance' = Null
    /\ UNCHANGED <<songs, wheelVars, modalVars, serverVars>>

Next ==
    \/ BuildWheelLayout
    \/ SelectWinner
    \/ WeightedRandomSelect
    \/ CalculateProbabilities
    \/ SeededShuffle
    \/ WheelPreview
    \/ Return

Spec == Init /\ [][Next]_vars

\* ---------------------------------------------------------------- any input
\* The same calls on everything their parameter types admit, beyond the lists and
\* seeds above: songs whose points are negative or missing, negative seeds, and
\* random values outside [0, 1).

\* Stands, in the points of AnySongLists, for a song without a points field.
MissingPoints == MaxPoints + 1

AnySong(id, points, bananaStickers) ==
    IF points = MissingPoints THEN [id |-> id, bananaStickers |-> bananaStickers]
    ELSE WheelSong(id, points, bananaStickers)

\* Song lists whose points are of either sign or missing; a song has a sticker
\* or none, so that lists with and without a banana section occur.
AnySongLists ==
    UNION {{[i \in 1..n |-> AnySong(SongIds(n)[i], ps[i], bs[i])] :
               ps \in [1..n -> (-MaxPoints)..MissingPoints],
               bs \in [1..n -> 0..1]} : n \in 0..MaxLen}

\* Integer seeds of either sign.  From -6 down the generator's first state,
\* (seed * 9301 + 49297) % 233280, is negative.
AnySeeds == (-(MaxSeed + 5))..MaxSeed

\* Random values on the grids of the pools, and values outside [0, 1).
AnyRandomValues(items) ==
    UNION {Grid(Abs(t)) : t \in {2, TotalBananas(items), TotalPoints(items)} \ {0}}
        \cup {Num(-1), Num(1), Rat(3, 2)}

InitAny ==
    /\ songs \in AnySongLists
    /\ Idle
    /\ NoPreview
    /\ WheelMounted
    /\ ModalMounted
    /\ NoRequests

BuildWheelLayoutAny ==
    /\ op = "idle"
    /\ \E seed \in {<<>>} \cup {<<s>> : s \in AnySeeds} :
        /\ shuffleSeed' = seed
        /\ layout' = buildWheelLayout(songs, seed)
        /\ songs' = ArrayAfterBuild(songs, seed)
    /\ op' = "buildWheelLayout"
    /\ UNCHANGED <<randomValue, randomValueWithinSection, getWeight,
                   result, selected, probabilities, shuffled>>
    /\ UNCHANGED otherVars

SelectWinnerAny ==
    /\ op = "idle"
    /\ \E rand1 \in Grid(2), rand2 \in AnyRandomValues(songs) :
        /\ randomValue' = rand1
        /\ randomValueWithinSection' = rand2
        /\ result' = selectWinner(songs, rand1, rand2)
    /\ op' = "selectWinner"
    /\ UNCHANGED <<songs, shuffleSeed, getWeight, layout, selected, probabilities, shuffled>>
    /\ UNCHANGED otherVars

WeightedRandomSelectAny ==
    /\ op = "idle"
    /\ \E w \in {"bananaStickers", "points || 1"}, u \in AnyRandomValues(songs) :
        /\ getWeight' = w
        /\ randomValue' = u
        /\ selected' = CASE w = "bananaStickers" -> weightedRandomSelect(songs, ByBananaStickers(songs), u)
                         [] OTHER -> weightedRandomSelect(songs, ByPoints(songs), u)
    /\ op' = "weightedRandomSelect"
    /\ UNCHANGED <<songs, shuffleSeed, randomValueWithinSection, layout, result, probabilities,
                   shuffled>>
    /\ UNCHANGED otherVars

SeededShuffleAny ==
    /\ op = "idle"
    /\ \E seed \in AnySeeds :
        /\ shuffleSeed' = <<seed>>
        /\ shuffled' = seededShuffleCall(songs, seed).returned
        /\ songs' = seededShuffleCall(songs, seed).array
    /\ op' = "seededShuffle"
    /\ UNCHANGED <<randomValue, randomValueWithinSection, getWeight,
                   layout, result, selected, probabilities>>
    /\ UNCHANGED otherVars

NextAny ==
    \/ BuildWheelLayoutAny
    \/ SelectWinnerAny
    \/ WeightedRandomSelectAny
    \/ CalculateProbabilities
    \/ SeededShuffleAny
    \/ Return

SpecAny == InitAny /\ [][NextAny]_vars

\* ---------------------------------------------------------------- SpinWheel, the component
MaxSpins == 2

\* The spin effect of SpinWheel in the render in which isSpinning is true:
\* selects the winner, turns the wheel to its segment and sets the timeout that
\* reports the song.
SpinEffect ==
    \E displaySegments \in {buildWheelLayout(songs, <<SpinWheelSeed(songs)>>).segments} :
        IF ~hasSpun /\ Len(displaySegments) > 0
        THEN \E selection \in {selectWinner(songs, rand1, rand2) :
                                  rand1 \in Grid(2), rand2 \in RandomValues(songs)},
                numExtraSpins \in {NumExtraSpins(random) : random \in Grid(4)} :
                \E winningSeg \in {IF selection = Null THEN Null
                                    ELSE WinningSegment(displaySegments, selection)} :
                    IF selection = Null \/ winningSeg = Null
                    THEN UNCHANGED <<rotation, hasSpun, timers, spinDebug, spins>>
                    ELSE /\ rotation' = FinalRotation(rotation, winningSeg.midAngle, numExtraSpins)
                         /\ hasSpun' = TRUE
                         /\ timers' = Append(timers, selection.winner)
                         /\ spinDebug' = [winner |-> selection.winner,
                                          midAngle |-> winningSeg.midAngle,
                                          rotation |-> rotation,
                                          numExtraSpins |-> numExtraSpins]
                         /\ spins' = spins + 1
        ELSE UNCHANGED <<rotation, hasSpun, timers, spinDebug, spins>>

\* The parent of SpinWheel passes isSpinning = true.
StartSpinning ==
    /\ ~isSpinning
    /\ spins < MaxSpins
    /\ isSpinning' = TRUE
    /\ SpinEffect
    /\ UNCHANGED <<songs, serverVars, engineVars, previewVars, modalVars, reports>>

\* The parent of SpinWheel, told of the song, passes isSpinning = false, and the
\* reset effect clears hasSpun.
StopSpinning ==
    /\ isSpinning
    /\ timers = <<>>
    /\ isSpinning' = FALSE
    /\ hasSpun' = FALSE
    /\ UNCHANGED <<songs, serverVars, engineVars, previewVars, modalVars, rotation, timers, spinDebug, spins,
                   reports>>

\* The oldest timeout fires and calls onSpinComplete with its song.
OnSpinComplete ==
    /\ timers # <<>>
    /\ reports' = Append(reports, Head(timers))
    /\ timers' = Tail(timers)
    /\ UNCHANGED <<songs, serverVars, engineVars, previewVars, modalVars, isSpinning, rotation, hasSpun,
                   spinDebug, spins>>

\* The lists the wheel is spun on: songs that have points, with a sticker or
\* without.
WheelSongLists ==
    {list \in AllSongLists :
        \A i \in 1..Len(list) : list[i].points >= 1 /\ list[i].bananaStickers <= 1}

InitWheel ==
    /\ songs \in WheelSongLists
    /\ Idle
    /\ NoPreview
    /\ WheelMounted
    /\ ModalMounted
    /\ NoRequests

NextWheel ==
    \/ StartSpinning
    \/ StopSpinning
    \/ OnSpinComplete

SpecWheel == InitWheel /\ [][NextWheel]_vars

\* ---------------------------------------------------------------- SpinWheelModal
\* The modal shows the winner instead of the wheel: showResult && winner.
ResultShown == showResult /\ winner # Null

\* The page opens the modal: setSpinWheelOpen(true), from a button that is
\* disabled when songs.length === 0.
OpenModal ==
    /\ ~open
    /\ Len(songs) > 0
    /\ open' = TRUE
    /\ event' = "open"
    /\ UNCHANGED <<songs, serverVars, engineVars, previewVars, wheelVars, winner, showResult, archiveCalls>>

\* handleSpin, from the SPIN button, which is shown with the wheel and disabled
\* when isSpinning || songs.length === 0; the wheel's spin effect runs in the
\* render that follows.
HandleSpin ==
    /\ open
    /\ ~ResultShown
    /\ ~(Len(songs) = 0 \/ isSpinning)
    /\ spins < MaxSpins
    /\ winner' = Null
    /\ showResult' = FALSE
    /\ isSpinning' = TRUE
    /\ SpinEffect
    /\ event' = "handleSpin"
    /\ UNCHANGED <<songs, serverVars, engineVars, previewVars, reports, open, archiveCalls>>

\* The timeout of the spin fires: onSpinComplete is handleSpinComplete.  The
\* modal then shows the result in place of the wheel, whose state is dropped
\* with it.
HandleSpinComplete ==
    /\ timers # <<>>
    /\ reports' = Append(reports, Head(timers))
    /\ timers' = Tail(timers)
    /\ winner' = Head(timers)
    /\ isSpinning' = FALSE
    /\ showResult' = TRUE
    /\ rotation' = Num(0)
    /\ hasSpun' = FALSE
    /\ event' = "handleSpinComplete"
    /\ UNCHANGED <<songs, serverVars, engineVars, previewVars, spinDebug, spins, open, archiveCalls>>

\* handlePinAndArchive without the reset of winner and showResult.
HandlePinAndArchive_KeepsResult ==
    /\ open
    /\ ResultShown
    /\ archiveCalls' = Append(archiveCalls, [id |-> winner.id, report |-> Len(reports)])
    /\ event' = "handlePinAndArchive"
    /\ UNCHANGED <<songs, serverVars, engineVars, previewVars, wheelVars, open, winner, showResult>>

\* handlePinAndArchive, from the Pin & Archive button of the result.  Each call
\* of onArchiveSong is kept with the number of songs reported by then.
HandlePinAndArchive ==
    /\ open
    /\ ResultShown
    /\ IF winner # Null
       THEN /\ archiveCalls' = Append(archiveCalls, [id |-> winner.id, report |-> Len(reports)])
            /\ showResult' = FALSE
            /\ winner' = Null
       ELSE UNCHANGED <<archiveCalls, showResult, winner>>
    /\ event' = "handlePinAndArchive"
    /\ UNCHANGED <<songs, serverVars, engineVars, previewVars, wheelVars, open>>

\* handleRespin, from the Re-spin button of the result.
HandleRespin ==
    /\ open
    /\ ResultShown
    /\ showResult' = FALSE
    /\ winner' = Null
    /\ event' = "handleRespin"
    /\ UNCHANGED <<songs, serverVars, engineVars, previewVars, wheelVars, open, archiveCalls>>

\* handleClose without the test of isSpinning.
HandleClose_WhileSpinning ==
    /\ open
    /\ open' = FALSE
    /\ showResult' = FALSE
    /\ winner' = Null
    /\ event' = "handleClose"
    /\ UNCHANGED <<songs, serverVars, engineVars, previewVars, wheelVars, archiveCalls>>

\* handleClose(false): the dialog asks to be closed.
HandleClose ==
    /\ open
    /\ IF ~isSpinning
       THEN /\ open' = FALSE
            /\ showResult' = FALSE
            /\ winner' = Null
       ELSE UNCHANGED <<open, showResult, winner>>
    /\ event' = "handleClose"
    /\ UNCHANGED <<songs, serverVars, engineVars, previewVars, wheelVars, archiveCalls>>

\* The song list the page passes after archiveMutation for a song of the list
\* and the refetch of the queue: without the song, the others with a point more.
Remaining(list, id) ==
    LET kept == SelectSeq(list, LAMBDA s : s.id # id)
    IN  [i \in 1..Len(kept) |-> [kept[i] EXCEPT !.points = @ + 1]]

Refetch ==
    /\ \E k \in 1..Len(archiveCalls) :
        /\ \E i \in 1..Len(songs) : songs[i].id = archiveCalls[k].id
        /\ songs' = Remaining(songs, archiveCalls[k].id)
    /\ UNCHANGED <<serverVars, engineVars, previewVars, wheelVars, modalVars>>

InitModal ==
    /\ songs \in WheelSongLists
    /\ Idle
    /\ NoPreview
    /\ WheelMounted
    /\ ModalMounted
    /\ NoRequests

NextModal ==
    \/ OpenModal
    \/ HandleSpin
    \/ HandleSpinComplete
    \/ HandlePinAndArchive
    \/ HandleRespin
    \/ HandleClose
    \/ Refetch

SpecModal == InitModal /\ [][NextModal]_vars

\* ---------------------------------------------------------------- server functions
\* Each await of a handler is one step: a statement of the database is atomic,
\* a handler is not.  A call takes the lowest free slot of requests and keeps it
\* until its answer is taken.
Answered(request) == request.pc \in {"returned", "threw"}

Free(r) ==
    /\ requests[r] = Null
    /\ \A q \in 1..(r - 1) : requests[q] # Null
    /\ calls < MaxCalls

\* The requests after a step of r: r becomes next, and no other call has any
\* longer run alone since it began.
Step(r, next) ==
    [q \in 1..MaxRequests |->
        IF q = r THEN next
        ELSE IF requests[q] = Null THEN Null
        ELSE [requests[q] EXCEPT !.alone = FALSE]]

\* submitterId: none, or the id of a user.
SubmitterIds == {"", "u1"}

\* allSubmitterIds: omitted, or [] as the page sends for an admin.
AllSubmitterIds == {<<>>, <<<<>>>>}

\* data.points of addPoints
Amounts == {-MaxAmount, 1}

AlreadyInQueue == "You already have a song in the queue. Wait until it gets picked!"

\* submitSong up to its insert: the search for a song of the submitter, which
\* throws if there is one, and the validation of the links.
SubmitSongCheck(r) ==
    /\ Free(r)
    /\ \E submitterId \in SubmitterIds, allSubmitterIds \in AllSubmitterIds, valid \in BOOLEAN :
        LET data == [submitterId |-> submitterId, allSubmitterIds |-> allSubmitterIds]
            idsToCheck == IdsToCheck(data)
            existingSong == IF Len(idsToCheck) > 0 THEN ExistingSong(rows, idsToCheck) ELSE <<>>
        IN  requests' = Step(r, [op |-> "submitSong", data |-> data, before |-> <<>>,
                                 alone |-> TRUE,
                                 pc |-> IF Len(existingSong) > 0 \/ ~valid THEN "threw"
                                        ELSE "insert",
                                 error |-> IF Len(existingSong) > 0 THEN AlreadyInQueue
                                           ELSE IF ~valid THEN "Invalid URL" ELSE ""])
    /\ calls' = calls + 1
    /\ UNCHANGED <<rows, songs, engineVars, previewVars, wheelVars, modalVars>>

\* The insert of submitSong; the serial id is the next one.
SubmitSongInsert(r) ==
    /\ requests[r] # Null
    /\ requests[r].pc = "insert"
    /\ rows' = Append(rows, NewRow(Len(rows) + 1, requests[r].data.submitterId))
    /\ requests' = Step(r, [requests[r] EXCEPT !.pc = "returned"])
    /\ UNCHANGED <<calls, songs, engineVars, previewVars, wheelVars, modalVars>>

\* archiveSong(id), its first update: the song is marked as picked, new Date()
\* being the number of the call.
ArchiveSongSetArchivedAt(r) ==
    /\ Free(r)
    /\ \E id \in 1..MaxSongId :
        /\ rows' = SetArchivedAt(rows, id, calls + 1)
        /\ requests' = Step(r, [op |-> "archiveSong", data |-> [id |-> id], before |-> rows,
                                alone |-> TRUE, pc |-> "increment", error |-> ""])
    /\ calls' = calls + 1
    /\ UNCHANGED <<songs, engineVars, previewVars, wheelVars, modalVars>>

\* archiveSong, its second update: a point for every song not archived.
ArchiveSongIncrement(r) ==
    /\ requests[r] # Null
    /\ requests[r].pc = "increment"
    /\ rows' = IncrementRemaining(rows)
    /\ requests' = Step(r, [requests[r] EXCEPT !.pc = "returned"])
    /\ UNCHANGED <<calls, songs, engineVars, previewVars, wheelVars, modalVars>>

\* addPoints({id, points}): one update.
AddPoints(r) ==
    /\ Free(r)
    /\ \E id \in 1..MaxSongId, points \in Amounts :
        /\ rows' = SetPoints(rows, id, points)
        /\ requests' = Step(r, [op |-> "addPoints", data |-> [id |-> id, points |-> points],
                                before |-> <<>>, alone |-> TRUE, pc |-> "returned",
                                error |-> ""])
    /\ calls' = calls + 1
    /\ UNCHANGED <<songs, engineVars, previewVars, wheelVars, modalVars>>

\* updateBananaStickers({id, delta}): one update.
UpdateBananaStickers(r) ==
    /\ Free(r)
    /\ \E id \in 1..MaxSongId, delta \in {-1, 1} :
        /\ rows' = SetBananaStickers(rows, id, delta)
        /\ requests' = Step(r, [op |-> "updateBananaStickers",
                                data |-> [id |-> id, delta |-> delta],
                                before |-> <<>>, alone |-> TRUE, pc |-> "returned",
                                error |-> ""])
    /\ calls' = calls + 1
    /\ UNCHANGED <<songs, engineVars, previewVars, wheelVars, modalVars>>

\* The answer of a call is taken by its caller.
Respond(r) ==
    /\ requests[r] # Null
    /\ Answered(requests[r])
    /\ requests' = [requests EXCEPT ![r] = Null]
    /\ UNCHANGED <<rows, calls, songs, engineVars, previewVars, wheelVars, modalVars>>

InitServer ==
    /\ songs = <<>>
    /\ Idle
    /\ NoPreview
    /\ WheelMounted
    /\ ModalMounted
    /\ NoRequests

NextServer ==
    \E r \in 1..MaxRequests :
        \/ SubmitSongCheck(r)
        \/ SubmitSongInsert(r)
        \/ ArchiveSongSetArchivedAt(r)
        \/ ArchiveSongIncrement(r)
        \/ AddPoints(r)
        \/ UpdateBananaStickers(r)
        \/ Respond(r)

SpecServer == InitServer /\ [][NextServer]_vars

\* ---------------------------------------------------------------- properties
SelectWinnerReturned == op = "selectWinner" /\ Len(songs) > 0

\* C1: for a nonempty song list and any random values in [0, 1), selectWinner
\* returns a result, never null, and its winner is one of the songs of the list.
C1_WinnerIsAnInputSong ==
    SelectWinnerReturned =>
        /\ result # Null
        /\ \E i \in 1..Len(songs) :
            /\ songs[i] = result.winner
            /\ songs[i].id = result.winner.id

\* A draw from the points section of a list with stickers whose winner is not the
\* first song.
C1_Witness ==
    /\ SelectWinnerReturned
    /\ Len(songs) = MaxLen
    /\ HasBananaSection(songs)
    /\ result # Null
    /\ result.winner = songs[2]
    /\ ~result.fromBananaSection

LayoutBuilt == op = "buildWheelLayout" /\ Len(songs) > 0

ProbabilitiesReturned == op = "calculateProbabilities" /\ Len(songs) > 0

\* The unit square of (rand1, rand2) cut into 2 * Cells(items) equal cells: rand1
\* into [0, 1/2) and [1/2, 1), rand2 into intervals of length 1 / Cells(items),
\* whose ends include every cumulative boundary of both sections.
Cells(items) ==
    (IF HasBananaSection(items) THEN TotalBananas(items) ELSE 1) * TotalPoints(items)

\* The point of cell (p, k) that lies at a/4 of its width in both directions.
Draw(items, p, k, a) ==
    selectWinner(items, Rat(4 * p + a, 8), Rat(4 * k + a, 4 * Cells(items)))

\* selectWinner is constant inside every cell.
ConstantOnCells(items) ==
    \A p \in 0..1, k \in 0..(Cells(items) - 1) :
        /\ Draw(items, p, k, 1) = Draw(items, p, k, 2)
        /\ Draw(items, p, k, 3) = Draw(items, p, k, 2)

\* The measure of the set of (rand1, rand2) for which selectWinner returns the
\* song id from the given section: the number of such cells over the number of
\* cells.
Measure(items, id, fromBananaSection) ==
    Rat(Cardinality({c \in (0..1) \X (0..(Cells(items) - 1)) :
                        \E spin \in {Draw(items, c[1], c[2], 2)} :
                            /\ spin # Null
                            /\ spin.winner.id = id
                            /\ spin.fromBananaSection = fromBananaSection}),
        2 * Cells(items))

\* C3: for a nonempty list, the measure of the random values for which
\* selectWinner returns a song from the banana section is the bananaProbability
\* calculateProbabilities gives the song, the measure from the points section is
\* its pointsProbability, and the measure of both together its totalProbability.
C3_MeasureMatchesProbabilities ==
    ProbabilitiesReturned =>
        /\ ConstantOnCells(songs)
        /\ \A i \in 1..Len(songs) :
            \A p \in {probabilities[songs[i].id]},
               fromBanana \in {Measure(songs, songs[i].id, TRUE)},
               fromPoints \in {Measure(songs, songs[i].id, FALSE)} :
                /\ fromBanana = p.bananaProbability
                /\ fromPoints = p.pointsProbability
                /\ Add(fromBanana, fromPoints) = p.totalProbability

\* A full list whose songs differ in stickers and in points, with a song that
\* wins from the banana section on a third of it.
C3_Witness ==
    /\ ProbabilitiesReturned
    /\ Len(songs) = MaxLen
    /\ songs[1].points # songs[2].points
    /\ \E i \in 1..Len(songs) :
        /\ Measure(songs, songs[i].id, TRUE) = Rat(1, 6)
        /\ probabilities[songs[i].id].bananaProbability = Rat(1, 6)
        /\ probabilities[songs[i].id].pointsProbability # Rat(1, 6)

\* C4: selectWinner reports fromBananaSection = TRUE exactly when some song has
\* bananaStickers > 0 and rand1 < 1/2; rand1 = 1/2 draws from the points section,
\* and so does every rand1 when no song has stickers.
C4_SectionChoice ==
    (SelectWinnerReturned /\ result # Null) =>
        (result.fromBananaSection <=>
            /\ \E i \in 1..Len(songs) : songs[i].bananaStickers > 0
            /\ 2 * randomValue.n < randomValue.d)

\* A draw with rand1 = 1/2 exactly from a list with stickers: the points section.
C4_Witness ==
    /\ SelectWinnerReturned
    /\ randomValue = Rat(1, 2)
    /\ \E i \in 1..Len(songs) : songs[i].bananaStickers > 0
    /\ result # Null
    /\ ~result.fromBananaSection

\* The points each song of the list counts for: its points, 1 where they are
\* not positive.
ResolvedPointsOf(items) == [s \in Elements(items) |-> IF s.points > 0 THEN s.points ELSE 1]

\* The list with every song's points replaced by ps.
WithPoints(items, ps) == [i \in 1..Len(items) |-> [items[i] EXCEPT !.points = ps[i]]]

\* C5: a draw from the banana section returns what weightedRandomSelect returns
\* over the songs with bananaStickers > 0 weighted by bananaStickers: the winner
\* has stickers and no song's points change it.  Any other draw returns what
\* weightedRandomSelect returns over all songs weighted by points, 1 where the
\* points are not positive.  Stickers 1 and 99 with (0.3, 0.5) return the second
\* song from the banana section.
C5_SectionPools ==
    /\ (SelectWinnerReturned /\ result # Null) =>
        IF result.fromBananaSection
        THEN /\ result.winner.bananaStickers > 0
             /\ result.winner =
                    weightedRandomSelect(SelectSeq(songs, LAMBDA s : s.bananaStickers > 0),
                                         [s \in Elements(songs) |-> s.bananaStickers],
                                         randomValueWithinSection)
             /\ \A ps \in [1..Len(songs) -> 0..MaxPoints] :
                    selectWinner(WithPoints(songs, ps), randomValue,
                                 randomValueWithinSection).winner.id = result.winner.id
        ELSE result.winner =
                 weightedRandomSelect(songs, ResolvedPointsOf(songs), randomValueWithinSection)
    /\ selectWinner(<<WheelSong(1, 100, 1), WheelSong(2, 1, 99)>>, Rat(3, 10), Rat(1, 2))
           = [winner |-> WheelSong(2, 1, 99), fromBananaSection |-> TRUE]

\* A draw from the banana section whose winner is not the song the same random
\* value selects by points.
C5_Witness ==
    /\ SelectWinnerReturned
    /\ result # Null
    /\ result.fromBananaSection
    /\ result.winner # weightedRandomSelect(songs, ResolvedPointsOf(songs),
                                            randomValueWithinSection)
    /\ result.winner # weightedRandomSelect(SelectSeq(songs, LAMBDA s : s.bananaStickers > 0),
                                            ResolvedPointsOf(songs), randomValueWithinSection)

\* The segments of one section, in layout order.
Section(segments, isBananaSection) ==
    SelectSeq(segments, LAMBDA g : g.isBananaSection = isBananaSection)

\* The sum of the angles of a sequence of segments.
RECURSIVE AngleSum(_)
AngleSum(segments) ==
    IF segments = <<>> THEN Num(0)
    ELSE Add(Head(segments).angle, AngleSum(Tail(segments)))

SomeSongHasStickers == \E i \in 1..Len(songs) : songs[i].bananaStickers > 0

SegmentCount(segments, isBananaSection, song) ==
    Cardinality({k \in 1..Len(segments) :
                    /\ segments[k].isBananaSection = isBananaSection
                    /\ segments[k].song.id = song.id})

\* C7: in the layout of a nonempty list every song has exactly one points
\* segment, and one banana segment if its bananaStickers > 0 and none otherwise;
\* hasBananaSection is true iff the layout has a banana segment.
C7_SegmentsPerSong ==
    LayoutBuilt =>
        /\ layout # TypeError
        /\ \A i \in 1..Len(songs) :
            /\ SegmentCount(layout.segments, FALSE, songs[i]) = 1
            /\ SegmentCount(layout.segments, TRUE, songs[i])
                   = (IF songs[i].bananaStickers > 0 THEN 1 ELSE 0)
        /\ \A k \in 1..Len(layout.segments) :
            \E i \in 1..Len(songs) : layout.segments[k].song = songs[i]
        /\ layout.hasBananaSection <=> Section(layout.segments, TRUE) # <<>>

\* A layout with a banana section in which one song has two segments and another
\* has one.
C7_Witness ==
    /\ LayoutBuilt
    /\ layout # TypeError
    /\ layout.hasBananaSection
    /\ \E i, j \in 1..Len(songs) :
        /\ SegmentCount(layout.segments, TRUE, songs[i]) = 1
        /\ SegmentCount(layout.segments, FALSE, songs[i]) = 1
        /\ SegmentCount(layout.segments, TRUE, songs[j]) = 0
        /\ SegmentCount(layout.segments, FALSE, songs[j]) = 1

\* The points a song counts for: its points, 1 where they are not positive.
ResolvedPoints(song) == IF song.points > 0 THEN song.points ELSE 1

\* The weight of a segment's song in the segment's section.
WeightIn(segment) ==
    IF segment.isBananaSection THEN segment.song.bananaStickers
    ELSE ResolvedPoints(segment.song)

\* The angle of the song's segment in a section of a layout.
AngleOf(built, isBananaSection, id) ==
    (CHOOSE g \in {built.segments[k] : k \in 1..Len(built.segments)} :
        g.isBananaSection = isBananaSection /\ g.song.id = id).angle

\* C8: a banana segment's angle is (bananaStickers / total bananaStickers) * 180
\* and a points segment's angle is (resolved points / total resolved points) *
\* (180 with a banana section, else 360); within a section angle_i * weight_j =
\* angle_j * weight_i.  Stickers 1, 2, 3 give banana angles 30, 60, 90.
C8_SegmentAngles ==
    LayoutBuilt =>
        /\ layout # TypeError
        /\ \A k \in 1..Len(layout.segments) :
            \A g \in {layout.segments[k]} :
                IF g.isBananaSection
                THEN g.angle.n * Sum([i \in 1..Len(songs) |-> songs[i].bananaStickers])
                         = 180 * g.song.bananaStickers * g.angle.d
                ELSE g.angle.n * Sum([i \in 1..Len(songs) |-> ResolvedPoints(songs[i])])
                         = (IF SomeSongHasStickers THEN 180 ELSE 360)
                               * ResolvedPoints(g.song) * g.angle.d
        /\ \A k, l \in 1..Len(layout.segments) :
            \A g \in {layout.segments[k]}, h \in {layout.segments[l]} :
                g.isBananaSection = h.isBananaSection =>
                    g.angle.n * WeightIn(h) * h.angle.d = h.angle.n * WeightIn(g) * g.angle.d
        /\ \A built \in {buildWheelLayout(<<WheelSong(1, 10, 1), WheelSong(2, 15, 2),
                                             WheelSong(3, 10, 3)>>, <<12345>>)} :
            /\ AngleOf(built, TRUE, 1) = Num(30)
            /\ AngleOf(built, TRUE, 2) = Num(60)
            /\ AngleOf(built, TRUE, 3) = Num(90)

\* A layout whose banana section holds two songs of different sticker counts and
\* whose points section weighs the same two songs the other way round.
C8_Witness ==
    /\ LayoutBuilt
    /\ layout # TypeError
    /\ \E k, l \in 1..Len(layout.segments) :
        /\ layout.segments[k].isBananaSection
        /\ layout.segments[l].isBananaSection
        /\ layout.segments[k].song.bananaStickers < layout.segments[l].song.bananaStickers
        /\ layout.segments[k].song.points > layout.segments[l].song.points
        /\ Less(layout.segments[k].angle, layout.segments[l].angle)

\* The sum of the totalProbability values of a probability map.
RECURSIVE TotalProbabilitySum(_, _)
TotalProbabilitySum(map, keys) ==
    IF keys = {} THEN Num(0)
    ELSE LET key == CHOOSE k \in keys : TRUE
         IN  Add(map[key].totalProbability, TotalProbabilitySum(map, keys \ {key}))

\* C9: for a nonempty list the map calculateProbabilities returns has an entry
\* per song, its totalProbability values sum to 1, each totalProbability is the
\* song's bananaProbability plus its pointsProbability, and bananaProbability is
\* 0 for every song without stickers.
C9_ProbabilitiesSumToOne ==
    ProbabilitiesReturned =>
        /\ DOMAIN probabilities = {songs[i].id : i \in 1..Len(songs)}
        /\ TotalProbabilitySum(probabilities, DOMAIN probabilities) = Num(1)
        /\ \A i \in 1..Len(songs) :
            \A p \in {probabilities[songs[i].id]} :
                /\ p.totalProbability.n * p.bananaProbability.d * p.pointsProbability.d
                       = p.totalProbability.d
                             * (p.bananaProbability.n * p.pointsProbability.d
                                + p.pointsProbability.n * p.bananaProbability.d)
                /\ songs[i].bananaStickers = 0 => p.bananaProbability = Num(0)

\* The probabilities of a full list in which some songs have stickers and one has
\* none.
C9_Witness ==
    /\ ProbabilitiesReturned
    /\ Len(songs) = MaxLen
    /\ \E i, j \in 1..Len(songs) :
        /\ songs[i].bananaStickers = 0
        /\ probabilities[songs[i].id].bananaProbability = Num(0)
        /\ songs[j].bananaStickers > 0
        /\ probabilities[songs[j].id].bananaProbability # Num(0)
        /\ probabilities[songs[j].id].totalProbability # Num(1)

\* The weight weightedRandomSelect was called with, per item.
GivenWeights ==
    [i \in 1..Len(songs) |->
        IF getWeight = "bananaStickers" THEN songs[i].bananaStickers
        ELSE ResolvedPoints(songs[i])]

\* The cumulative weight of the first j items.
Cumulative(ws, j) == Sum(SubSeq(ws, 1, j))

\* j is the first item whose cumulative weight is >= u * total.
FirstReaching(ws, u, j) ==
    /\ Cumulative(ws, j) * u.d >= u.n * Sum(ws)
    /\ \A k \in 1..(j - 1) : Cumulative(ws, k) * u.d < u.n * Sum(ws)

SelectReturned == op = "weightedRandomSelect" /\ Len(songs) > 0 /\ Sum(GivenWeights) > 0

\* C10: for nonempty items of positive total weight and u in [0, 1),
\* weightedRandomSelect returns the first item in list order whose cumulative
\* weight is >= u * total, so a target equal to a cumulative boundary selects the
\* item that ends there.  Weights [1, 9]: u = 0.05 selects the first item and
\* u = 0.5 the second.
C10_FirstItemReachingTarget ==
    SelectReturned =>
        /\ \E j \in 1..Len(songs) :
            /\ FirstReaching(GivenWeights, randomValue, j)
            /\ selected = songs[j]
        /\ weightedRandomSelect(<<"A", "B">>, [name \in {"A", "B"} |-> IF name = "A" THEN 1 ELSE 9],
                                Rat(5, 100)) = "A"
        /\ weightedRandomSelect(<<"A", "B">>, [name \in {"A", "B"} |-> IF name = "A" THEN 1 ELSE 9],
                                Rat(1, 2)) = "B"

\* A target that equals the cumulative weight of an item before the last, which
\* is selected although the next item has weight too.
C10_Witness ==
    /\ SelectReturned
    /\ \E j \in 1..(Len(songs) - 1) :
        /\ randomValue.n * Sum(GivenWeights) = Cumulative(GivenWeights, j) * randomValue.d
        /\ GivenWeights[j] > 0
        /\ GivenWeights[j + 1] > 0
        /\ selected = songs[j]

\* The weights the callback handed to weightedRandomSelect returns, per item.
CalledWeights ==
    [i \in 1..Len(songs) |->
        IF getWeight = "bananaStickers" THEN BananaWeight(songs[i])
        ELSE PointsWeight(songs[i])]

WeightedSelectReturned == op = "weightedRandomSelect"

\* C11: weightedRandomSelect returns null if and only if the items array is
\* empty; for a nonempty array it returns a member of the array whatever the
\* weights (positive, zero or negative, of any total) and whatever the random
\* value (inside [0, 1) or not).
C11_NullIffEmpty ==
    WeightedSelectReturned =>
        /\ selected = Null <=> Len(songs) = 0
        /\ Len(songs) > 0 => \E i \in 1..Len(songs) : selected = songs[i]

\* A target above the total weight of a list of several songs: no cumulative
\* weight reaches it, and the last song is returned.
C11_Witness ==
    /\ WeightedSelectReturned
    /\ Len(songs) > 1
    /\ Sum(CalledWeights) > 0
    /\ randomValue = Rat(3, 2)
    /\ selected = songs[Len(songs)]

\* C12: when the weights of a nonempty list sum to 0, weightedRandomSelect
\* returns the first item of the list for every random value; it divides by
\* nothing, so the result is an item and never a non-finite number.
C12_ZeroTotalReturnsFirst ==
    (WeightedSelectReturned /\ Len(songs) > 0 /\ Sum(CalledWeights) = 0) =>
        /\ selected = songs[1]
        /\ selected # Null

\* Weights that cancel out, the first one negative, so that the first
\* cumulative weight is below the target 0.
C12_Witness ==
    /\ WeightedSelectReturned
    /\ Len(songs) > 1
    /\ Sum(CalledWeights) = 0
    /\ CalledWeights[1] < 0
    /\ randomValue = Rat(1, 2)
    /\ selected = songs[1]

ShuffleReturned == op = "seededShuffle"

\* How many times x occurs in the array.
Count(array, x) == Cardinality({k \in 1..Len(array) : array[k] = x})

\* C13: for every array and every integer seed, positive, zero or negative,
\* seededShuffle returns an array of the same length in which every input
\* element occurs as many times as in the input and no element is undefined.
C13_ShuffleIsPermutation ==
    ShuffleReturned =>
        /\ Len(shuffled) = Len(songs)
        /\ \A k \in 1..Len(shuffled) : shuffled[k] # Null
        /\ \A i \in 1..Len(songs) : Count(shuffled, songs[i]) = Count(songs, songs[i])

C15_EmptyList ==
    Len(songs) = 0 =>
        /\ op = "buildWheelLayout" =>
            /\ layout # TypeError
            /\ layout.segments = <<>>
            /\ layout.hasBananaSection = FALSE
            /\ layout.totalBananas = 0
            /\ layout.totalPoints = 0
        /\ op = "selectWinner" => result = Null
        /\ op = "calculateProbabilities" =>
            /\ probabilities # Null
            /\ DOMAIN probabilities = {}
        /\ \A rand1 \in Grid(2), rand2 \in AnyRandomValues(songs) :
            selectWinner(songs, rand1, rand2) = Null

\* The layout of the empty list, asked for with a shuffle seed.
C15_Witness ==
    /\ op = "buildWheelLayout"
    /\ Len(songs) = 0
    /\ shuffleSeed # <<>>
    /\ layout # TypeError
    /\ layout.segments = <<>>
    /\ selectWinner(songs, Rat(1, 4), Rat(1, 2)) = Null
    /\ DOMAIN calculateProbabilities(songs) = {}

\* A song's weight when every non-positive or missing points value counts as
\* 1: its points where they are positive, else 1.
WeightOne(song) ==
    IF "points" \in DOMAIN song /\ song.points > 0 THEN song.points ELSE 1

\* The list with every song's points replaced by that weight.
WithWeightOne(items) ==
    [i \in 1..Len(items) |->
        WheelSong(items[i].id, WeightOne(items[i]), items[i].bananaStickers)]

\* The geometry of a layout: per segment its id and angles, and the totals.
Geometry(built) ==
    [segments |-> [k \in 1..Len(built.segments) |->
                      [segmentId |-> built.segments[k].segmentId,
                       startAngle |-> built.segments[k].startAngle,
                       endAngle |-> built.segments[k].endAngle,
                       angle |-> built.segments[k].angle,
                       midAngle |-> built.segments[k].midAngle]],
     hasBananaSection |-> built.hasBananaSection,
     totalBananas |-> built.totalBananas,
     totalPoints |-> built.totalPoints]

\* C16: a song whose points are zero, negative or missing weighs 1 in
\* buildWheelLayout, selectWinner and calculateProbabilities alike: each returns
\* what it returns for the list in which such points are replaced by 1.  Two
\* songs with 0 points get probability 1/2 each.
C16_NonPositivePointsWeighOne ==
    /\ (op = "calculateProbabilities" /\ Len(songs) > 0) =>
        probabilities = calculateProbabilities(WithWeightOne(songs))
    /\ (op = "selectWinner" /\ Len(songs) > 0) =>
        \A spin \in {selectWinner(WithWeightOne(songs), randomValue, randomValueWithinSection)} :
            /\ result # Null
            /\ result.winner.id = spin.winner.id
            /\ result.fromBananaSection = spin.fromBananaSection
    /\ (op = "buildWheelLayout" /\ Len(songs) > 0 /\ layout # TypeError) =>
        Geometry(layout) = Geometry(buildWheelLayout(WithWeightOne(songs), shuffleSeed))
    /\ op = "calculateProbabilities" =>
        \A p \in {calculateProbabilities(<<WheelSong(1, 0, 0), WheelSong(2, 0, 0)>>)} :
            /\ p[1].totalProbability = Rat(1, 2)
            /\ p[2].totalProbability = Rat(1, 2)

\* The same statement for the songs of the input contract, whose points are
\* whole numbers >= 0: it is the negative points that break it.
C16_ZeroPointsWeighOne ==
    (\A i \in 1..Len(songs) : "points" \notin DOMAIN songs[i] \/ songs[i].points >= 0)
        => C16_NonPositivePointsWeighOne

\* The segmentIds of a layout.
SegmentIds(built) == {built.segments[k].segmentId : k \in 1..Len(built.segments)}

\* C17: passing a shuffleSeed changes only the order of the segments within
\* each section: for every list and every seed the layout exists, its
\* hasBananaSection, totalBananas, totalPoints and set of segmentIds are those of
\* the layout built without a seed, and each segmentId has the same angle in both.
C17_SeedChangesOnlyOrder ==
    (LayoutBuilt /\ shuffleSeed # <<>>) =>
        \A plain \in {buildWheelLayout(songs, <<>>)} :
            /\ layout # TypeError
            /\ layout.hasBananaSection = plain.hasBananaSection
            /\ layout.totalBananas = plain.totalBananas
            /\ layout.totalPoints = plain.totalPoints
            /\ SegmentIds(layout) = SegmentIds(plain)
            /\ Len(layout.segments) = Len(plain.segments)
            /\ \A k \in 1..Len(layout.segments) :
                \E l \in 1..Len(plain.segments) :
                    /\ plain.segments[l].segmentId = layout.segments[k].segmentId
                    /\ plain.segments[l].angle = layout.segments[k].angle
                    /\ plain.segments[l].song = layout.segments[k].song

\* C18: every segment of the layout of a nonempty list has an angle that is
\* finite and not negative, neither NaN nor an infinity from a division by a
\* pool total of 0, and its endAngle is at least its startAngle.
C18_AnglesFiniteNonNegative ==
    (LayoutBuilt /\ layout # TypeError) =>
        \A k \in 1..Len(layout.segments) :
            \A g \in {layout.segments[k]} :
                /\ IsFinite(g.angle)
                /\ Leq(Num(0), g.angle)
                /\ IsFinite(g.startAngle)
                /\ IsFinite(g.endAngle)
                /\ Leq(g.startAngle, g.endAngle)

\* C19: in the layout of a nonempty list the first segment starts at -90, each
\* later segment starts where the one before it ends, every banana segment comes
\* before every points segment, each segment ends at startAngle + angle and has
\* midAngle = startAngle + angle / 2, and the last segment ends at 270, so that
\* the segments cover 360 degrees.
C19_ContiguousWheel ==
    LayoutBuilt =>
        /\ layout # TypeError
        /\ Len(layout.segments) > 0
        /\ layout.segments[1].startAngle = Num(-90)
        /\ \A k \in 2..Len(layout.segments) :
            layout.segments[k].startAngle = layout.segments[k - 1].endAngle
        /\ \A k, l \in 1..Len(layout.segments) :
            (layout.segments[k].isBananaSection /\ ~layout.segments[l].isBananaSection)
                => k < l
        /\ \A k \in 1..Len(layout.segments) :
            \A g \in {layout.segments[k]} :
                /\ Leq(g.startAngle, g.endAngle)
                /\ g.endAngle.n * g.startAngle.d * g.angle.d
                       = g.endAngle.d * (g.startAngle.n * g.angle.d + g.angle.n * g.startAngle.d)
                /\ 2 * g.midAngle.n * g.startAngle.d * g.angle.d
                       = g.midAngle.d * (2 * g.startAngle.n * g.angle.d
                                         + g.angle.n * g.startAngle.d)
        /\ layout.segments[Len(layout.segments)].endAngle = Num(270)
        /\ AngleSum(layout.segments) = Num(360)

\* A shuffled layout with two banana segments of different angles followed
\* by three points segments, the banana section ending at 90 where the points
\* section starts.
C19_Witness ==
    /\ LayoutBuilt
    /\ shuffleSeed # <<>>
    /\ layout # TypeError
    /\ Len(layout.segments) = MaxLen + 2
    /\ layout.segments[2].isBananaSection
    /\ layout.segments[2].endAngle = Num(90)
    /\ ~layout.segments[3].isBananaSection
    /\ layout.segments[3].startAngle = Num(90)
    /\ layout.segments[1].angle # layout.segments[2].angle
    /\ layout.segments[3].angle # layout.segments[4].angle
    /\ layout.segments[MaxLen + 2].endAngle = Num(270)

\* The segment of a song in a section of a layout, or null.
SegmentOf(built, isBananaSection, id) ==
    Find(Section(built.segments, isBananaSection),
         SegmentId(IF isBananaSection THEN "banana" ELSE "points", id))

\* C20: segment size equals probability.  For every nonempty list (ids unique)
\* and every song, in the layout of the same list, built with or without a
\* shuffle seed, bananaProbability is the angle of the song's banana segment over
\* 360, or 0 when it has none, and pointsProbability is the angle of its points
\* segment over 360.
C20_SegmentSizeIsProbability ==
    ProbabilitiesReturned =>
        \A seed \in ShuffleSeeds(songs) :
            \A built \in {buildWheelLayout(songs, seed)} :
                /\ built # TypeError
                /\ \A i \in 1..Len(songs) :
                    \A p \in {probabilities[songs[i].id]},
                       banana \in {SegmentOf(built, TRUE, songs[i].id)},
                       points \in {SegmentOf(built, FALSE, songs[i].id)} :
                        /\ points # Null
                        /\ p.pointsProbability = Div(points.angle, Num(360))
                        /\ p.bananaProbability =
                               (IF banana = Null THEN Num(0)
                                ELSE Div(banana.angle, Num(360)))

\* The probabilities of a full list in which a song has a banana segment of 120
\* degrees and a points segment of another size, and another song has no banana
\* segment.
C20_Witness ==
    /\ ProbabilitiesReturned
    /\ Len(songs) = MaxLen
    /\ \E i, j \in 1..Len(songs) :
        /\ SegmentOf(buildWheelLayout(songs, <<>>), TRUE, songs[i].id) # Null
        /\ SegmentOf(buildWheelLayout(songs, <<>>), TRUE, songs[i].id).angle = Num(120)
        /\ probabilities[songs[i].id].bananaProbability = Rat(1, 3)
        /\ probabilities[songs[i].id].pointsProbability # Rat(1, 3)
        /\ SegmentOf(buildWheelLayout(songs, <<>>), TRUE, songs[j].id) = Null
        /\ probabilities[songs[j].id].bananaProbability = Num(0)

PreviewShown == op = "WheelPreviewModal"

\* C21: for every song of allSongs, the percentChance WheelPreviewModal shows is
\* 100 times the totalProbability calculateProbabilities(allSongs) gives the
\* song's id.
C21_PreviewChanceIsTotalProbability ==
    PreviewShown =>
        percentChance =
            Mul(Num(100), calculateProbabilities(songs)[previewSong.id].totalProbability)

\* The preview of a song without stickers in a list with a banana section,
\* which the points section alone gives less than half.
C21_Witness ==
    /\ PreviewShown
    /\ Len(songs) = MaxLen
    /\ previewSong.bananaStickers = 0
    /\ HasBananaSection(songs)
    /\ Less(Num(0), percentChance)
    /\ Less(percentChance, Num(50))
    /\ percentChance = Mul(Num(100), calculateProbabilities(songs)[previewSong.id].pointsProbability)

\* The wheel has been turned by a spin that is still running.
WheelTurned == isSpinning /\ hasSpun /\ spinDebug # Null

\* C22: when SpinWheel starts a spin from its current rotation, the final
\* rotation R it sets puts the midpoint of the winning segment under the
\* pointer, (midAngle + R) mod 360 = 270, and R exceeds the previous rotation by
\* a forward delta in (0, 360] plus 5 to 8 whole turns: by more than 5 and at
\* most 9 full turns.
C22_WheelStopsOnWinner ==
    WheelTurned =>
        /\ Rem(Add(spinDebug.midAngle, rotation), 360) = Num(270)
        /\ Less(Num(5 * 360), Sub(rotation, spinDebug.rotation))
        /\ Leq(Sub(rotation, spinDebug.rotation), Num(9 * 360))
        /\ spinDebug.numExtraSpins \in 5..8
        /\ \A delta \in {Sub(Sub(rotation, spinDebug.rotation), Num(spinDebug.numExtraSpins * 360))} :
              Less(Num(0), delta) /\ Leq(delta, Num(360))

\* A second spin, from a rotation that is not a whole number of turns, to a
\* segment the wheel already points at: the delta is a full turn.
C22_Witness ==
    /\ WheelTurned
    /\ spins = MaxSpins
    /\ Rem(spinDebug.rotation, 360) # Num(0)
    /\ Sub(rotation, spinDebug.rotation) = Num((spinDebug.numExtraSpins + 1) * 360)
    /\ spinDebug.midAngle.d > 1
    /\ Rem(Add(spinDebug.midAngle, rotation), 360) = Num(270)

\* Request r is an archiveSong(id) that has returned and ran alone.
ArchiveSongReturned(r) ==
    /\ requests[r] # Null
    /\ requests[r].op = "archiveSong"
    /\ requests[r].pc = "returned"
    /\ requests[r].alone

\* The song of that id is in the table and not archived.
Queued(table, id) ==
    \E i \in 1..Len(table) : table[i].id = id /\ table[i].archivedAt = <<>>

\* C23: archiveSong(id) on a queued song marks exactly that song archived and
\* leaves its points unchanged, gives every other song that is not archived
\* exactly one point more, and changes nothing of the songs already archived.
C23_ArchiveRedistributesOnePoint ==
    \A r \in 1..MaxRequests :
        ArchiveSongReturned(r) /\ Queued(requests[r].before, requests[r].data.id) =>
            /\ Len(rows) = Len(requests[r].before)
            /\ \A i \in 1..Len(rows) :
                \A old \in {requests[r].before[i]} :
                    IF old.id = requests[r].data.id
                    THEN /\ rows[i].archivedAt # <<>>
                         /\ rows[i] = [old EXCEPT !.archivedAt = rows[i].archivedAt]
                    ELSE IF old.archivedAt = <<>>
                    THEN rows[i] = [old EXCEPT !.points = old.points + 1]
                    ELSE rows[i] = old

\* The second of three songs is archived after the first: the second keeps its
\* points, the third gains one and the first, archived before, is as it was.
C23_Witness ==
    \E r \in 1..MaxRequests :
        /\ ArchiveSongReturned(r)
        /\ Len(rows) = 3
        /\ requests[r].data.id = 2
        /\ Queued(requests[r].before, 2)
        /\ requests[r].before[1].archivedAt # <<>>
        /\ rows[1] = requests[r].before[1]
        /\ rows[2].archivedAt # <<>>
        /\ rows[2].points = requests[r].before[2].points
        /\ rows[3].archivedAt = <<>>
        /\ rows[3].points = requests[r].before[3].points + 1

\* C24: archiveSong is idempotent per song: called for a song that is already
\* archived, or for an id no song has, it leaves the points and the archived
\* status of every song unchanged, so that the songs in the queue gain exactly
\* one point per picked song.
C24_ArchiveIsIdempotent ==
    \A r \in 1..MaxRequests :
        ArchiveSongReturned(r) /\ ~Queued(requests[r].before, requests[r].data.id) =>
            /\ Len(rows) = Len(requests[r].before)
            /\ \A i \in 1..Len(rows) :
                /\ rows[i].points = requests[r].before[i].points
                /\ rows[i].archivedAt = <<>> <=> requests[r].before[i].archivedAt = <<>>

\* C25: after any sequence of submitSong, addPoints of any amount,
\* updateBananaStickers of any delta and archiveSong, every stored song has
\* points >= 1 and bananaStickers >= 0, so that points || 1 is the stored
\* points.
C25_StoredWeightsInRange ==
    \A i \in 1..Len(rows) :
        /\ rows[i].points >= 1
        /\ rows[i].bananaStickers >= 0
        /\ PointsWeight(rows[i]) = rows[i].points

\* addPoints has taken more points from a song than it had, and
\* updateBananaStickers a sticker from a song without one: both are clamped.
C25_Witness ==
    /\ calls = 3
    /\ Len(rows) = 1
    /\ rows[1].points = 1
    /\ rows[1].bananaStickers = 0
    /\ \E r, q \in 1..MaxRequests :
        /\ requests[r] # Null
        /\ requests[r].op = "addPoints"
        /\ requests[r].data = [id |-> 1, points |-> -MaxAmount]
        /\ requests[q] # Null
        /\ requests[q].op = "updateBananaStickers"
        /\ requests[q].data = [id |-> 1, delta |-> -1]

\* The song of a submitter id that is not empty.
Owned(table, submitterId) ==
    \E i \in 1..Len(table) : table[i].submitterId = Column(submitterId)

\* Request r is a submitSong that the step has just begun.
SubmitSongBegun(r) ==
    /\ requests[r] = Null
    /\ requests'[r] # Null
    /\ requests'[r].op = "submitSong"

\* C26: after any interleaving of submitSong calls, two concurrent calls for the
\* same submitterId included, no two songs share a submitterId that is not
\* empty; and a submitSong whose submitterId is not empty and already owns a
\* song throws 'You already have a song in the queue' and inserts nothing.
C26_OneSongPerSubmitter ==
    [][/\ \A i, j \in 1..Len(rows') :
            rows'[i].submitterId # <<>> /\ rows'[i].submitterId = rows'[j].submitterId => i = j
       /\ \A r \in 1..MaxRequests :
            /\ SubmitSongBegun(r)
            /\ requests'[r].data.submitterId # ""
            /\ Owned(rows, requests'[r].data.submitterId)
            => /\ requests'[r].pc = "threw"
               /\ requests'[r].error = AlreadyInQueue
               /\ rows' = rows]_vars

\* C27: submitSong rejects a submitter only while a song of theirs is still in
\* the queue, not archived; once that song is archived, a later submitSong of
\* the same submitter succeeds.
C27_RejectedOnlyWhileQueued ==
    [][\A r \in 1..MaxRequests :
        /\ SubmitSongBegun(r)
        /\ requests'[r].pc = "threw"
        /\ requests'[r].error = AlreadyInQueue
        => \E i \in 1..Len(rows) :
            /\ rows[i].archivedAt = <<>>
            /\ rows[i].submitterId # <<>>
            /\ \E k \in 1..Len(IdsToCheck(requests'[r].data)) :
                  IdsToCheck(requests'[r].data)[k] = rows[i].submitterId[1]]_vars

\* C28: in SpinWheelModal, onArchiveSong is called at most once for each
\* completed spin and only with the id of the song onSpinComplete reported last;
\* in every reachable state showResult implies that winner is set and that
\* isSpinning is false; a request to close while isSpinning is ignored.
C28_ModalArchivesTheReportedWinnerOnce ==
    /\ [](/\ \A k \in 1..Len(archiveCalls) :
              /\ archiveCalls[k].report \in 1..Len(reports)
              /\ archiveCalls[k].id = reports[archiveCalls[k].report].id
              /\ \A j \in 1..Len(archiveCalls) :
                    archiveCalls[j].report = archiveCalls[k].report => j = k
          /\ showResult => winner # Null /\ ~isSpinning)
    /\ [][/\ archiveCalls' # archiveCalls =>
              /\ reports # <<>>
              /\ archiveCalls' =
                    Append(archiveCalls, [id |-> reports[Len(reports)].id,
                                          report |-> Len(reports)])
          /\ isSpinning /\ event # "handleClose" /\ event' = "handleClose" =>
              UNCHANGED <<songs, wheelVars, open, winner, showResult, archiveCalls>>]_vars

\* The second spin is running and a request to close has just been ignored,
\* after the winner of the first spin was archived.
C28_Witness ==
    /\ event = "handleClose"
    /\ isSpinning
    /\ open
    /\ spins = MaxSpins
    /\ Len(reports) = 1
    /\ Len(archiveCalls) = 1
    /\ archiveCalls[1].id = reports[1].id

\* C29: for every list of non-negative weights of positive total and every
\* random value u in [0, 1), u = 0 included, weightedRandomSelect does not
\* return an item whose weight is 0.
C29_NeverZeroWeightItem ==
    SelectReturned =>
        \A i \in 1..Len(songs) : selected = songs[i] => GivenWeights[i] # 0

====
